---------------------------- MODULE Spec2Model ----------------------------
(***************************************************************************)
(* Device-scoped todo store (convex/todos.ts) and the device identity hook *)
(* (hooks/useDeviceId) of TODO-APP-RN.                                     *)
(*                                                                         *)
(* Every Convex query/mutation handler runs as one serializable            *)
(* transaction, so each handler is one action.  The identity hook is an    *)
(* async function: each `await` is a scheduling point, so each action of   *)
(* the hook is the completion of one awaited call followed by the          *)
(* synchronous code up to the next await.                                  *)
(***************************************************************************)
EXTENDS Integers, Sequences, FiniteSets, TLC

(***************************************************************************)
(* Bounds                                                                  *)
(***************************************************************************)
\* documents ever inserted into the 'todos' table
MaxTodos == 2
\* length of a text argument
MaxTextLen == 2
\* distinct non-empty device identifiers presented to the store
NumDevices == 2
\* components that are mounted with their own useDeviceId() in one launch
NumHooks == 2
\* events of one run that the hook does not choose: a rejected promise
\* (AsyncStorage, Crypto.digestStringAsync), a resetDeviceId call, the app
\* being killed and launched again
MaxEvents == 2

(***************************************************************************)
(* Values                                                                  *)
(***************************************************************************)
\* JS null (AsyncStorage.getItem of an absent key, useState<string|null>)
Null == "<null>"
\* JS undefined (an optional argument that is absent)
Undefined == "<undefined>"

\* characters of a text: a whitespace character and a printing one
Chars == {" ", "a"}
WhiteSpace == {" "}

Texts == UNION {[1..n -> Chars] : n \in 0..MaxTextLen}

DeviceIdOf(n) == "device_" \o ToString(n)
Devices == {DeviceIdOf(n) : n \in 1..NumDevices}
\* what a caller can put in a v.string() deviceId argument
DeviceArgs == Devices \cup {""}
\* what a caller can put in a v.optional(v.string()) deviceId argument
OptDeviceArgs == DeviceArgs \cup {Undefined}
\* values accepted by v.id('todos'): ids handed out so far or not (yet) used
IdArgs == 1..(MaxTodos + 1)

\* mutant of Falsy: the empty string passes the `!args.deviceId` checks
Falsy_emptyIsTruthy(s) == s = Null \/ s = Undefined

\* JS truthiness of a string | null | undefined
Falsy(s) == s = "" \/ s = Null \/ s = Undefined

(***************************************************************************)
(* String.prototype.trim                                                   *)
(***************************************************************************)
RECURSIVE TrimStart(_)
TrimStart(s) ==
    IF s = <<>> THEN <<>>
    ELSE IF Head(s) \in WhiteSpace THEN TrimStart(Tail(s))
    ELSE s

RECURSIVE TrimEnd(_)
TrimEnd(s) ==
    IF s = <<>> THEN <<>>
    ELSE IF s[Len(s)] \in WhiteSpace THEN TrimEnd(SubSeq(s, 1, Len(s) - 1))
    ELSE s

\* mutant of Trim: leading whitespace is kept
Trim_endOnly(s) == TrimEnd(s)

\* mutant of Trim: trailing whitespace is kept
Trim_startOnly(s) == TrimStart(s)

Trim(s) == TrimEnd(TrimStart(s))

(***************************************************************************)
(* State                                                                   *)
(***************************************************************************)
VARIABLES
    todos,      \* the 'todos' table: _id -> document
    inserted,   \* number of documents ever inserted (source of _id and _creationTime)
    call,       \* the store call just made: function, arguments and outcome
    before,     \* the table as it was when that call started
    creator,    \* _id -> the deviceId argument of the addTodo call that inserted it
    streak,     \* the todo whose successive toggles are being followed, and how it began
    cleared,    \* the deviceId of the clearAllTodos that was the call before, or Null
    written,    \* _id -> the document as the last successful call on it wrote it
    last,       \* the call before, when it succeeded: function, deviceId and _id
    raced,      \* how addTodo next to a clearAllTodos of its device has ended so far
    twin,       \* a second todos table, equal to the first but for one device's todos
    twinCall,   \* what the call being compared did on the other table
    storage,    \* AsyncStorage: key -> value or Null
    entropy,    \* per instance: its draws of randomUUID() / Date.now() / Math.random() so far
    pc,         \* per useDeviceId instance: the await its async call is suspended at
    deviceId,   \* per instance: useState<string | null>(null)
    isLoading,  \* per instance: useState(true)
    pending,    \* per instance: the local shortDeviceId / fallbackId being written
    inReset,    \* per instance: generateOrRetrieveDeviceId was called by resetDeviceId
    outcome,    \* per instance: how its last call ended
    alone,      \* per instance: no other call has been in flight during its call
    expect,     \* per instance: the identifier settled when its call started, or Null
    baseline,   \* identifier settled by a call that ran alone, until a reset starts
    readFailed, \* a getItem has rejected since the baseline was settled
    replacing,  \* per instance: the identifier it exposed when its resetDeviceId began
    retired,    \* identifiers that a completed resetDeviceId was called to replace
    faults,     \* rejected promises so far
    resets,     \* resetDeviceId calls so far
    restarts    \* app restarts so far

storeVars == <<todos, inserted, call, before, creator, streak, cleared,
              written, last, raced, twin, twinCall>>
trackVars == <<streak, cleared>>
serialVars == <<written, last, raced>>
twinVars == <<twin, twinCall>>
histVars == <<streak, cleared, written, last, raced, twin, twinCall>>
idVars == <<storage, entropy, pc, deviceId, isLoading, pending, inReset, outcome,
            alone, expect, baseline, readFailed, replacing, retired,
          faults, resets, restarts>>
vars == <<todos, inserted, call, before, creator, streak, cleared,
          written, last, raced, twin, twinCall,
          storage, entropy, pc, deviceId, isLoading, pending, inReset, outcome,
          alone, expect, baseline, readFailed, replacing, retired,
          faults, resets, restarts>>

\* ConvexError messages of convex/todos.ts
ErrEmptyText == "Todo text cannot be empty"
ErrDeviceRequired == "Device ID is required"
ErrDeviceRequiredAuth == "Device ID is required for authorization"
ErrNotFound == "Todo not found"
ErrNotFoundDeleted == "Todo not found or already deleted"
ErrNotAuthorized == "Not authorized: Todo belongs to a different device"

\* the error kinds of the specification, by message
ErrorKind(msg) ==
    IF msg \in {ErrEmptyText, ErrDeviceRequired, ErrDeviceRequiredAuth} THEN "ValidationError"
    ELSE IF msg \in {ErrNotFound, ErrNotFoundDeleted} THEN "NotFoundError"
    ELSE IF msg = ErrNotAuthorized THEN "AuthorizationError"
    ELSE "none"

NoCall == [fn |-> "none", deviceId |-> "", id |-> 0, text |-> <<>>,
           error |-> "", retId |-> 0, newStatus |-> FALSE,
           updatedText |-> <<>>, deletedCount |-> 0, list |-> <<>>]

Threw(fn, d, i, t, msg) ==
    [NoCall EXCEPT !.fn = fn, !.deviceId = d, !.id = i, !.text = t, !.error = msg]

Returned(fn, d, i, t) ==
    [NoCall EXCEPT !.fn = fn, !.deviceId = d, !.id = i, !.text = t]

\* ctx.db.get(id)
Exists(i) == i \in DOMAIN todos

\* mutant of ByDevice: only the completed documents of the device are found
ByDevice_completedOnly(T, d) == {i \in DOMAIN T : T[i].deviceId = d /\ T[i].isCompleted}

\* mutant of ByDevice: the query is not narrowed by the index
ByDevice_wholeTable(T, d) == DOMAIN T

\* ctx.db.query('todos').withIndex("by_device", q => q.eq("deviceId", d))
ByDevice(T, d) == {i \in DOMAIN T : T[i].deviceId = d}

\* mutant of Newest: the document with the smallest _creationTime
Newest_oldest(T, S) == CHOOSE j \in S : \A k \in S : T[j].creationTime <= T[k].creationTime

\* the first document of S under .order("desc"): the largest _creationTime
Newest(T, S) == CHOOSE j \in S : \A k \in S : T[k].creationTime <= T[j].creationTime

\* .order("desc").collect(): documents of S by _creationTime, newest first
RECURSIVE CollectDesc(_, _)
CollectDesc(T, S) ==
    IF S = {} THEN <<>>
    ELSE LET i == Newest(T, S)
         IN  <<[id |-> i, text |-> T[i].text, isCompleted |-> T[i].isCompleted,
                deviceId |-> T[i].deviceId, creationTime |-> T[i].creationTime]>>
             \o CollectDesc(T, S \ {i})

\* mutant of NotAuthorized: the ownership check is missing
NotAuthorized_unchecked(todo, d) == FALSE

\* todo.deviceId !== args.deviceId
NotAuthorized(todo, d) == todo.deviceId # d

\* mutant of Toggled: the patch also clears the deviceId
Toggled_disowned(todo) == [todo EXCEPT !.isCompleted = ~todo.isCompleted, !.deviceId = ""]

\* mutant of Toggled: the patch also empties the text
Toggled_textless(todo) == [todo EXCEPT !.isCompleted = ~todo.isCompleted, !.text = <<>>]

\* mutant of Toggled: the todo is marked completed instead of flipped
Toggled_alwaysCompleted(todo) == [todo EXCEPT !.isCompleted = TRUE]

\* the document after ctx.db.patch(args.id, { isCompleted: !todo.isCompleted })
Toggled(todo) == [todo EXCEPT !.isCompleted = ~todo.isCompleted]

\* mutant of Updated: the patch also marks the todo as not completed
Updated_uncompleted(todo, t) == [todo EXCEPT !.text = Trim(t), !.isCompleted = FALSE]

\* mutant of Updated: the patch is lost, the document stays as it was read
Updated_lost(todo, t) == todo

\* the document after ctx.db.patch(args.id, { text: args.text.trim() })
Updated(todo, t) == [todo EXCEPT !.text = Trim(t)]

\* ctx.db.insert: a new function with one more document
Insert(T, i, doc) == [j \in DOMAIN T \cup {i} |-> IF j = i THEN doc ELSE T[j]]
\* mutant of Remove: a deletion takes the newer documents with it
Remove_andNewer(T, S) == [j \in {k \in DOMAIN T : \A i \in S : k < i} |-> T[j]]

\* mutant of Remove: a deletion takes the older documents with it
Remove_andOlder(T, S) == [j \in {k \in DOMAIN T : \A i \in S : k > i} |-> T[j]]

\* ctx.db.delete of a set of documents
Remove(T, S) == [j \in DOMAIN T \ S |-> T[j]]

(***************************************************************************)
(* convex/todos.ts                                                         *)
(***************************************************************************)
\* mutant of getTodos: a missing deviceId is refused as the mutations refuse it
getTodos_strict(d) ==
    /\ before' = todos
    /\ UNCHANGED idVars
    /\ call' = IF Falsy(d)
               THEN Threw("getTodos", d, 0, <<>>, ErrDeviceRequired)
               ELSE [Returned("getTodos", d, 0, <<>>)
                        EXCEPT !.list = CollectDesc(todos, ByDevice(todos, d))]
    /\ UNCHANGED <<todos, inserted, creator>>

getTodos(d) ==
    /\ before' = todos
    /\ UNCHANGED idVars
    /\ call' = IF Falsy(d)
               THEN Returned("getTodos", d, 0, <<>>)
               ELSE [Returned("getTodos", d, 0, <<>>)
                        EXCEPT !.list = CollectDesc(todos, ByDevice(todos, d))]
    /\ UNCHANGED <<todos, inserted, creator>>

\* mutant of addTodo: the new document takes the smallest _id that no stored
\* document has
addTodo_reusesId(d, t) ==
    /\ before' = todos
    /\ UNCHANGED idVars
    /\ IF Trim(t) = <<>>
       THEN /\ call' = Threw("addTodo", d, 0, t, ErrEmptyText)
            /\ UNCHANGED <<todos, inserted, creator>>
       ELSE IF Falsy(d)
       THEN /\ call' = Threw("addTodo", d, 0, t, ErrDeviceRequired)
            /\ UNCHANGED <<todos, inserted, creator>>
       ELSE LET free == (1..(inserted + 1)) \ DOMAIN todos
                id == CHOOSE i \in free : \A j \in free : i <= j
            IN  /\ inserted < MaxTodos
                /\ inserted' = inserted + 1
                /\ todos' = Insert(todos, id,
                                   [text |-> Trim(t), isCompleted |-> FALSE,
                                    deviceId |-> d, creationTime |-> inserted + 1])
                /\ creator' = Insert(creator, id, d)
                /\ call' = [Returned("addTodo", d, 0, t) EXCEPT !.retId = id]

addTodo(d, t) ==
    /\ before' = todos
    /\ UNCHANGED idVars
    /\ IF Trim(t) = <<>>
       THEN /\ call' = Threw("addTodo", d, 0, t, ErrEmptyText)
            /\ UNCHANGED <<todos, inserted, creator>>
       ELSE IF Falsy(d)
       THEN /\ call' = Threw("addTodo", d, 0, t, ErrDeviceRequired)
            /\ UNCHANGED <<todos, inserted, creator>>
       ELSE /\ inserted < MaxTodos
            /\ inserted' = inserted + 1
            /\ todos' = Insert(todos, inserted + 1,
                               [text |-> Trim(t), isCompleted |-> FALSE,
                                deviceId |-> d, creationTime |-> inserted + 1])
            /\ creator' = Insert(creator, inserted + 1, d)
            /\ call' = [Returned("addTodo", d, 0, t) EXCEPT !.retId = inserted + 1]

\* mutant of toggleTodo: the document is patched before its owner is checked
toggleTodo_patchesFirst(d, i) ==
    /\ before' = todos
    /\ UNCHANGED idVars
    /\ UNCHANGED <<inserted, creator>>
    /\ IF Falsy(d)
       THEN /\ call' = Threw("toggleTodo", d, i, <<>>, ErrDeviceRequiredAuth)
            /\ UNCHANGED todos
       ELSE IF ~Exists(i)
       THEN /\ call' = Threw("toggleTodo", d, i, <<>>, ErrNotFound)
            /\ UNCHANGED todos
       ELSE /\ todos' = [todos EXCEPT ![i] = Toggled(todos[i])]
            /\ call' = IF NotAuthorized(todos[i], d)
                       THEN Threw("toggleTodo", d, i, <<>>, ErrNotAuthorized)
                       ELSE [Returned("toggleTodo", d, i, <<>>)
                                EXCEPT !.newStatus = ~todos[i].isCompleted]

toggleTodo(d, i) ==
    /\ before' = todos
    /\ UNCHANGED idVars
    /\ UNCHANGED <<inserted, creator>>
    /\ IF Falsy(d)
       THEN /\ call' = Threw("toggleTodo", d, i, <<>>, ErrDeviceRequiredAuth)
            /\ UNCHANGED todos
       ELSE IF ~Exists(i)
       THEN /\ call' = Threw("toggleTodo", d, i, <<>>, ErrNotFound)
            /\ UNCHANGED todos
       ELSE IF NotAuthorized(todos[i], d)
       THEN /\ call' = Threw("toggleTodo", d, i, <<>>, ErrNotAuthorized)
            /\ UNCHANGED todos
       ELSE /\ todos' = [todos EXCEPT ![i] = Toggled(todos[i])]
            /\ call' = [Returned("toggleTodo", d, i, <<>>)
                           EXCEPT !.newStatus = ~todos[i].isCompleted]

\* mutant of deleteTodo: deleting an id without a document is a silent no-op
deleteTodo_silent(d, i) ==
    /\ before' = todos
    /\ UNCHANGED idVars
    /\ UNCHANGED <<inserted, creator>>
    /\ IF Falsy(d)
       THEN /\ call' = Threw("deleteTodo", d, i, <<>>, ErrDeviceRequiredAuth)
            /\ UNCHANGED todos
       ELSE IF ~Exists(i)
       THEN /\ call' = [Returned("deleteTodo", d, i, <<>>) EXCEPT !.retId = i]
            /\ UNCHANGED todos
       ELSE IF NotAuthorized(todos[i], d)
       THEN /\ call' = Threw("deleteTodo", d, i, <<>>, ErrNotAuthorized)
            /\ UNCHANGED todos
       ELSE /\ todos' = Remove(todos, {i})
            /\ call' = [Returned("deleteTodo", d, i, <<>>) EXCEPT !.retId = i]

\* mutant of deleteTodo: an id without a document is refused as a todo of
\* another device
deleteTodo_goneIsForeign(d, i) ==
    /\ before' = todos
    /\ UNCHANGED idVars
    /\ UNCHANGED <<inserted, creator>>
    /\ IF Falsy(d)
       THEN /\ call' = Threw("deleteTodo", d, i, <<>>, ErrDeviceRequiredAuth)
            /\ UNCHANGED todos
       ELSE IF ~Exists(i)
       THEN /\ call' = Threw("deleteTodo", d, i, <<>>, ErrNotAuthorized)
            /\ UNCHANGED todos
       ELSE IF NotAuthorized(todos[i], d)
       THEN /\ call' = Threw("deleteTodo", d, i, <<>>, ErrNotAuthorized)
            /\ UNCHANGED todos
       ELSE /\ todos' = Remove(todos, {i})
            /\ call' = [Returned("deleteTodo", d, i, <<>>) EXCEPT !.retId = i]

deleteTodo(d, i) ==
    /\ before' = todos
    /\ UNCHANGED idVars
    /\ UNCHANGED <<inserted, creator>>
    /\ IF Falsy(d)
       THEN /\ call' = Threw("deleteTodo", d, i, <<>>, ErrDeviceRequiredAuth)
            /\ UNCHANGED todos
       ELSE IF ~Exists(i)
       THEN /\ call' = Threw("deleteTodo", d, i, <<>>, ErrNotFoundDeleted)
            /\ UNCHANGED todos
       ELSE IF NotAuthorized(todos[i], d)
       THEN /\ call' = Threw("deleteTodo", d, i, <<>>, ErrNotAuthorized)
            /\ UNCHANGED todos
       ELSE /\ todos' = Remove(todos, {i})
            /\ call' = [Returned("deleteTodo", d, i, <<>>) EXCEPT !.retId = i]

\* mutant of updateTodo: an update of an id without a document writes the
\* document again
updateTodo_upsert(d, i, t) ==
    /\ before' = todos
    /\ UNCHANGED idVars
    /\ UNCHANGED <<inserted, creator>>
    /\ IF Trim(t) = <<>>
       THEN /\ call' = Threw("updateTodo", d, i, t, ErrEmptyText)
            /\ UNCHANGED todos
       ELSE IF Falsy(d)
       THEN /\ call' = Threw("updateTodo", d, i, t, ErrDeviceRequiredAuth)
            /\ UNCHANGED todos
       ELSE IF ~Exists(i)
       THEN /\ todos' = Insert(todos, i, [text |-> Trim(t), isCompleted |-> FALSE,
                                           deviceId |-> d, creationTime |-> i])
            /\ call' = [Returned("updateTodo", d, i, t) EXCEPT !.updatedText = Trim(t)]
       ELSE IF NotAuthorized(todos[i], d)
       THEN /\ call' = Threw("updateTodo", d, i, t, ErrNotAuthorized)
            /\ UNCHANGED todos
       ELSE /\ todos' = [todos EXCEPT ![i] = Updated(todos[i], t)]
            /\ call' = [Returned("updateTodo", d, i, t) EXCEPT !.updatedText = Trim(t)]

\* mutant of updateTodo: the text is validated last, after the document is
\* looked up and its owner checked
updateTodo_textLast(d, i, t) ==
    /\ before' = todos
    /\ UNCHANGED idVars
    /\ UNCHANGED <<inserted, creator>>
    /\ IF Falsy(d)
       THEN /\ call' = Threw("updateTodo", d, i, t, ErrDeviceRequiredAuth)
            /\ UNCHANGED todos
       ELSE IF ~Exists(i)
       THEN /\ call' = Threw("updateTodo", d, i, t, ErrNotFound)
            /\ UNCHANGED todos
       ELSE IF NotAuthorized(todos[i], d)
       THEN /\ call' = Threw("updateTodo", d, i, t, ErrNotAuthorized)
            /\ UNCHANGED todos
       ELSE IF Trim(t) = <<>>
       THEN /\ call' = Threw("updateTodo", d, i, t, ErrEmptyText)
            /\ UNCHANGED todos
       ELSE /\ todos' = [todos EXCEPT ![i] = Updated(todos[i], t)]
            /\ call' = [Returned("updateTodo", d, i, t) EXCEPT !.updatedText = Trim(t)]

updateTodo(d, i, t) ==
    /\ before' = todos
    /\ UNCHANGED idVars
    /\ UNCHANGED <<inserted, creator>>
    /\ IF Trim(t) = <<>>
       THEN /\ call' = Threw("updateTodo", d, i, t, ErrEmptyText)
            /\ UNCHANGED todos
       ELSE IF Falsy(d)
       THEN /\ call' = Threw("updateTodo", d, i, t, ErrDeviceRequiredAuth)
            /\ UNCHANGED todos
       ELSE IF ~Exists(i)
       THEN /\ call' = Threw("updateTodo", d, i, t, ErrNotFound)
            /\ UNCHANGED todos
       ELSE IF NotAuthorized(todos[i], d)
       THEN /\ call' = Threw("updateTodo", d, i, t, ErrNotAuthorized)
            /\ UNCHANGED todos
       ELSE /\ todos' = [todos EXCEPT ![i] = Updated(todos[i], t)]
            /\ call' = [Returned("updateTodo", d, i, t) EXCEPT !.updatedText = Trim(t)]

\* mutant of clearAllTodos: the query misses the document inserted last
clearAllTodos_missesNewest(d) ==
    /\ before' = todos
    /\ UNCHANGED idVars
    /\ UNCHANGED <<inserted, creator>>
    /\ IF Falsy(d)
       THEN /\ call' = Threw("clearAllTodos", d, 0, <<>>, ErrDeviceRequired)
            /\ UNCHANGED todos
       ELSE LET deviceTodos == ByDevice(todos, d) \ {inserted}
            IN  /\ todos' = Remove(todos, deviceTodos)
                /\ call' = [Returned("clearAllTodos", d, 0, <<>>)
                               EXCEPT !.deletedCount = Cardinality(deviceTodos)]

\* mutant of clearAllTodos: the count returned is that of the whole table
clearAllTodos_countsTable(d) ==
    /\ before' = todos
    /\ UNCHANGED idVars
    /\ UNCHANGED <<inserted, creator>>
    /\ IF Falsy(d)
       THEN /\ call' = Threw("clearAllTodos", d, 0, <<>>, ErrDeviceRequired)
            /\ UNCHANGED todos
       ELSE LET deviceTodos == ByDevice(todos, d)
            IN  /\ todos' = Remove(todos, deviceTodos)
                /\ call' = [Returned("clearAllTodos", d, 0, <<>>)
                               EXCEPT !.deletedCount = Cardinality(DOMAIN todos)]

\* mutant of clearAllTodos: without a deviceId there is nothing to delete
clearAllTodos_lenient(d) ==
    /\ before' = todos
    /\ UNCHANGED idVars
    /\ UNCHANGED <<inserted, creator>>
    /\ LET deviceTodos == IF Falsy(d) THEN {} ELSE ByDevice(todos, d)
       IN  /\ todos' = Remove(todos, deviceTodos)
           /\ call' = [Returned("clearAllTodos", d, 0, <<>>)
                          EXCEPT !.deletedCount = Cardinality(deviceTodos)]

clearAllTodos(d) ==
    /\ before' = todos
    /\ UNCHANGED idVars
    /\ UNCHANGED <<inserted, creator>>
    /\ IF Falsy(d)
       THEN /\ call' = Threw("clearAllTodos", d, 0, <<>>, ErrDeviceRequired)
            /\ UNCHANGED todos
       ELSE LET deviceTodos == ByDevice(todos, d)
            IN  /\ todos' = Remove(todos, deviceTodos)
                /\ call' = [Returned("clearAllTodos", d, 0, <<>>)
                               EXCEPT !.deletedCount = Cardinality(deviceTodos)]

(***************************************************************************)
(* The store under arbitrary callers                                       *)
(***************************************************************************)
\* no call is being looked at
Idle == call = NoCall

\* the caller has taken the result of its call; the next call starts from the
\* table alone
Settle ==
    /\ ~Idle
    /\ call' = NoCall
    /\ before' = <<>>
    /\ UNCHANGED <<todos, inserted, creator>>
    /\ UNCHANGED idVars

\* what the user saves from the edit field in this specification: one
\* character, or two without surrounding white space
EditedTexts == {t \in Texts : Len(t) = 1 \/ (Len(t) = 2 /\ Trim(t) = t)}

\* there is no successful call before
NoLast == [fn |-> "none", deviceId |-> "", id |-> 0]

\* no toggles are being followed
NoStreak == [id |-> 0, n |-> 0, isCompleted |-> FALSE, text |-> <<>>]

\* devices differ in nothing but their identifier: they are numbered in the
\* order in which they create their first todo
NextCreator(d) ==
    LET used == {creator[i] : i \in DOMAIN creator}
    IN  d \in Devices => (d \in used \/ d = DeviceIdOf(Cardinality(used) + 1))

StoreNext ==
    \/ Idle /\ UNCHANGED histVars /\ \E d \in OptDeviceArgs : getTodos(d)
    \/ Idle /\ UNCHANGED histVars
            /\ \E d \in DeviceArgs, t \in Texts : NextCreator(d) /\ addTodo(d, t)
    \/ Idle /\ UNCHANGED histVars /\ \E d \in DeviceArgs, i \in IdArgs : toggleTodo(d, i)
    \/ Idle /\ UNCHANGED histVars /\ \E d \in DeviceArgs, i \in IdArgs : deleteTodo(d, i)
    \/ Idle /\ UNCHANGED histVars
            /\ \E d \in DeviceArgs, i \in IdArgs, t \in Texts : updateTodo(d, i, t)
    \/ Idle /\ UNCHANGED histVars /\ \E d \in DeviceArgs : clearAllTodos(d)
    \/ Settle /\ UNCHANGED histVars


(***************************************************************************)
(* hooks/useDeviceId                                                       *)
(***************************************************************************)
\* the mounted components calling useDeviceId(); each has its own hook state
Hooks == 1..NumHooks

\* `device_${hashedId.substring(0, 32)}` of the deviceInfo with the n-th draw of instance h
HashIdOf(h, n) == "device_h" \o ToString(h) \o "_" \o ToString(n)
\* `device_${Date.now()}_${Math.random().toString(36).substr(2, 9)}`, n-th draw of h
FallbackIdOf(h, n) == "device_t" \o ToString(h) \o "_" \o ToString(n)
\* JSON.stringify(deviceInfo) of the deviceInfo that hashes to identifier id
DeviceInfoOf(id) == "info_" \o id

\* mutant of Stored: the persisted identifier is ignored
Stored_ignored(storedDeviceId) == FALSE

\* if (storedDeviceId)
Stored(storedDeviceId) == ~Falsy(storedDeviceId)

InFlight(h) == pc[h] \notin {"unmounted", "idle"}

\* rejected promises, resetDeviceId calls and restarts so far
Events == faults + resets + restarts

\* a promise may reject
MayFail == Events < MaxEvents

\* bookkeeping when the hooks in H start a call; r: the call is a resetDeviceId
BeginCalls(H, r) ==
    /\ alone' = [g \in Hooks |->
                    IF g \in H
                    THEN Cardinality(H) = 1 /\ \A k \in Hooks \ H : ~InFlight(k)
                    ELSE IF InFlight(g) THEN FALSE ELSE alone[g]]
    /\ baseline' = IF r THEN Null ELSE baseline
    /\ expect' = [g \in Hooks |->
                    IF r THEN Null ELSE IF g \in H THEN baseline ELSE expect[g]]
    /\ replacing' = [g \in Hooks |-> IF g \in H /\ r THEN deviceId[g] ELSE replacing[g]]

\* bookkeeping when the call of hook h ends; v: the identifier it returned, or Null
EndCall(h, how, v) ==
    /\ outcome' = [outcome EXCEPT ![h] = how]
    /\ inReset' = [inReset EXCEPT ![h] = FALSE]
    /\ pending' = [pending EXCEPT ![h] = Null]
    /\ IF v # Null /\ baseline = Null /\ alone[h]
       THEN baseline' = v /\ readFailed' = FALSE
       ELSE UNCHANGED <<baseline, readFailed>>
    /\ replacing' = [replacing EXCEPT ![h] = Null]
    /\ retired' = IF inReset[h] /\ replacing[h] # Null
                  THEN retired \cup {replacing[h]} ELSE retired

\* useEffect(() => { generateOrRetrieveDeviceId(); }, []) of a mounting component:
\* runs up to `await AsyncStorage.getItem('device_id')`; the instances are numbered
\* in the order in which React runs their effects
Mount(h) ==
    /\ pc[h] = "unmounted"
    /\ \A g \in Hooks : g < h => pc[g] # "unmounted"
    /\ pc' = [pc EXCEPT ![h] = "getItem"]
    /\ BeginCalls({h}, FALSE)
    /\ UNCHANGED <<storage, entropy, deviceId, isLoading, pending, inReset, outcome,
                   readFailed, retired, faults, resets, restarts>>
    /\ UNCHANGED storeVars

\* the catch block of generateOrRetrieveDeviceId up to its `await setItem`
Catch(h) ==
    /\ entropy' = [entropy EXCEPT ![h] = @ + 1]
    /\ pending' = [pending EXCEPT ![h] = FallbackIdOf(h, entropy[h] + 1)]
    /\ pc' = [pc EXCEPT ![h] = "setItemFallback"]
    /\ faults' = faults + 1

\* `await AsyncStorage.getItem('device_id')` settles
GetItemSettles(h) ==
    /\ pc[h] = "getItem"
    /\ UNCHANGED <<storage, resets, restarts, alone, expect>>
    /\ UNCHANGED storeVars
    /\ \/ /\ MayFail
          /\ Catch(h)
          /\ readFailed' = TRUE
          /\ UNCHANGED <<deviceId, isLoading, inReset, outcome, baseline, replacing, retired>>
       \/ LET storedDeviceId == storage["device_id"]
          IN  IF Stored(storedDeviceId)
              THEN /\ deviceId' = [deviceId EXCEPT ![h] = storedDeviceId]
                   /\ isLoading' = [isLoading EXCEPT ![h] = FALSE]
                   /\ pc' = [pc EXCEPT ![h] = "idle"]
                   /\ EndCall(h, "returned", storedDeviceId)
                   /\ UNCHANGED <<entropy, faults>>
              ELSE /\ entropy' = [entropy EXCEPT ![h] = @ + 1]
                   /\ pending' = [pending EXCEPT ![h] = HashIdOf(h, entropy[h] + 1)]
                   /\ pc' = [pc EXCEPT ![h] = "digest"]
                   /\ UNCHANGED <<deviceId, isLoading, inReset, outcome, baseline,
                                  readFailed, replacing, retired, faults>>

\* `await Crypto.digestStringAsync(...)` settles
DigestSettles(h) ==
    /\ pc[h] = "digest"
    /\ UNCHANGED <<storage, deviceId, isLoading, inReset, outcome, baseline, readFailed,
                   replacing, retired, resets, restarts, alone, expect>>
    /\ UNCHANGED storeVars
    /\ \/ /\ MayFail
          /\ Catch(h)
       \/ /\ pc' = [pc EXCEPT ![h] = "setItemId"]
          /\ UNCHANGED <<entropy, pending, faults>>

\* `await AsyncStorage.setItem('device_id', shortDeviceId)` settles
SetItemIdSettles(h) ==
    /\ pc[h] = "setItemId"
    /\ UNCHANGED <<deviceId, isLoading, inReset, outcome, baseline, readFailed,
                   replacing, retired, resets, restarts, alone, expect>>
    /\ UNCHANGED storeVars
    /\ \/ /\ MayFail
          /\ Catch(h)
          /\ UNCHANGED storage
       \/ /\ storage' = [storage EXCEPT !["device_id"] = pending[h]]
          /\ pc' = [pc EXCEPT ![h] = "setItemInfo"]
          /\ UNCHANGED <<entropy, pending, faults>>

\* `await AsyncStorage.setItem('device_info', JSON.stringify(deviceInfo))` settles
SetItemInfoSettles(h) ==
    /\ pc[h] = "setItemInfo"
    /\ UNCHANGED <<resets, restarts, alone, expect>>
    /\ UNCHANGED storeVars
    /\ \/ /\ MayFail
          /\ Catch(h)
          /\ UNCHANGED <<storage, deviceId, isLoading, inReset, outcome, baseline,
                         readFailed, replacing, retired>>
       \/ /\ storage' = [storage EXCEPT !["device_info"] = DeviceInfoOf(pending[h])]
          /\ deviceId' = [deviceId EXCEPT ![h] = pending[h]]
          /\ isLoading' = [isLoading EXCEPT ![h] = FALSE]
          /\ pc' = [pc EXCEPT ![h] = "idle"]
          /\ EndCall(h, "returned", pending[h])
          /\ UNCHANGED <<entropy, faults>>

\* `await AsyncStorage.setItem('device_id', fallbackId)` in the catch block settles;
\* a rejection leaves generateOrRetrieveDeviceId with an exception: unhandled when
\* the effect called it, logged by the catch of resetDeviceId otherwise
SetItemFallbackSettles(h) ==
    /\ pc[h] = "setItemFallback"
    /\ pc' = [pc EXCEPT ![h] = "idle"]
    /\ UNCHANGED <<entropy, resets, restarts, alone, expect>>
    /\ UNCHANGED storeVars
    /\ \/ /\ MayFail
          /\ faults' = faults + 1
          /\ EndCall(h, IF inReset[h] THEN "caught" ELSE "rejected", Null)
          /\ UNCHANGED <<storage, deviceId, isLoading>>
       \/ /\ storage' = [storage EXCEPT !["device_id"] = pending[h]]
          /\ deviceId' = [deviceId EXCEPT ![h] = pending[h]]
          /\ isLoading' = [isLoading EXCEPT ![h] = FALSE]
          /\ EndCall(h, "returned", pending[h])
          /\ UNCHANGED faults

\* resetDeviceId() up to `await AsyncStorage.removeItem('device_id')`
resetDeviceId(h) ==
    /\ pc[h] = "idle"
    /\ Events < MaxEvents
    /\ resets' = resets + 1
    /\ pc' = [pc EXCEPT ![h] = "removeId"]
    /\ inReset' = [inReset EXCEPT ![h] = TRUE]
    /\ BeginCalls({h}, TRUE)
    /\ UNCHANGED <<storage, entropy, deviceId, isLoading, pending, outcome,
                   readFailed, retired, faults, restarts>>
    /\ UNCHANGED storeVars

\* `await AsyncStorage.removeItem('device_id')` settles
RemoveIdSettles(h) ==
    /\ pc[h] = "removeId"
    /\ UNCHANGED <<entropy, deviceId, isLoading, resets, restarts, alone, expect>>
    /\ UNCHANGED storeVars
    /\ \/ /\ MayFail
          /\ faults' = faults + 1
          /\ pc' = [pc EXCEPT ![h] = "idle"]
          /\ EndCall(h, "caught", Null)
          /\ UNCHANGED storage
       \/ /\ storage' = [storage EXCEPT !["device_id"] = Null]
          /\ pc' = [pc EXCEPT ![h] = "removeInfo"]
          /\ UNCHANGED <<pending, inReset, outcome, baseline, readFailed,
                         replacing, retired, faults>>

\* `await AsyncStorage.removeItem('device_info')` settles; then setDeviceId(null),
\* setIsLoading(true) and generateOrRetrieveDeviceId() up to its getItem. The
\* two updates come after an await: a root that batches them renders once, a
\* legacy root renders after setDeviceId(null) and again after
\* setIsLoading(true)
RemoveInfoSettles(h) ==
    /\ pc[h] = "removeInfo"
    /\ UNCHANGED <<entropy, resets, restarts, alone, expect>>
    /\ UNCHANGED storeVars
    /\ \/ /\ MayFail
          /\ faults' = faults + 1
          /\ pc' = [pc EXCEPT ![h] = "idle"]
          /\ EndCall(h, "caught", Null)
          /\ UNCHANGED <<storage, deviceId, isLoading>>
       \/ /\ storage' = [storage EXCEPT !["device_info"] = Null]
          /\ deviceId' = [deviceId EXCEPT ![h] = Null]
          /\ isLoading' = [isLoading EXCEPT ![h] = TRUE]
          /\ pc' = [pc EXCEPT ![h] = "getItem"]
          /\ UNCHANGED <<pending, inReset, outcome, baseline, readFailed,
                         replacing, retired, faults>>
       \/ /\ storage' = [storage EXCEPT !["device_info"] = Null]
          /\ deviceId' = [deviceId EXCEPT ![h] = Null]
          /\ pc' = [pc EXCEPT ![h] = "setIsLoading"]
          /\ UNCHANGED <<isLoading, pending, inReset, outcome, baseline, readFailed,
                         replacing, retired, faults>>

\* setIsLoading(true) of resetDeviceId is rendered on its own; then
\* generateOrRetrieveDeviceId() up to its getItem
SetIsLoadingRenders(h) ==
    /\ pc[h] = "setIsLoading"
    /\ isLoading' = [isLoading EXCEPT ![h] = TRUE]
    /\ pc' = [pc EXCEPT ![h] = "getItem"]
    /\ UNCHANGED <<storage, entropy, deviceId, pending, inReset, outcome, alone, expect,
                   baseline, readFailed, replacing, retired, faults, resets, restarts>>
    /\ UNCHANGED storeVars

\* the app is killed and launched again: component state is lost, calls in
\* flight end where they are, AsyncStorage stays
Restart ==
    /\ Events < MaxEvents
    /\ restarts' = restarts + 1
    /\ \E h \in Hooks : pc[h] # "unmounted"
    /\ pc' = [h \in Hooks |-> "unmounted"]
    /\ deviceId' = [h \in Hooks |-> Null]
    /\ isLoading' = [h \in Hooks |-> TRUE]
    /\ pending' = [h \in Hooks |-> Null]
    /\ inReset' = [h \in Hooks |-> FALSE]
    /\ outcome' = [h \in Hooks |-> "none"]
    /\ alone' = [h \in Hooks |-> FALSE]
    /\ expect' = [h \in Hooks |-> Null]
    /\ replacing' = [h \in Hooks |-> Null]
    /\ UNCHANGED <<storage, entropy, baseline, readFailed, retired, faults, resets>>
    /\ UNCHANGED storeVars

\* an empty table and a fresh installation: nothing persisted, nothing mounted
Init ==
    /\ todos = <<>>
    /\ inserted = 0
    /\ call = NoCall
    /\ before = <<>>
    /\ creator = <<>>
    /\ streak = NoStreak
    /\ cleared = Null
    /\ written = <<>>
    /\ last = NoLast
    /\ raced = {}
    /\ twin = <<>>
    /\ twinCall = NoCall
    /\ storage = [k \in {"device_id", "device_info"} |-> Null]
    /\ entropy = [h \in Hooks |-> 0]
    /\ pc = [h \in Hooks |-> "unmounted"]
    /\ deviceId = [h \in Hooks |-> Null]
    /\ isLoading = [h \in Hooks |-> TRUE]
    /\ pending = [h \in Hooks |-> Null]
    /\ inReset = [h \in Hooks |-> FALSE]
    /\ outcome = [h \in Hooks |-> "none"]
    /\ alone = [h \in Hooks |-> FALSE]
    /\ expect = [h \in Hooks |-> Null]
    /\ baseline = Null
    /\ readFailed = FALSE
    /\ replacing = [h \in Hooks |-> Null]
    /\ retired = {}
    /\ faults = 0
    /\ resets = 0
    /\ restarts = 0

IdentityNext ==
    \/ \E h \in Hooks : Mount(h)
    \/ \E h \in Hooks : GetItemSettles(h)
    \/ \E h \in Hooks : DigestSettles(h)
    \/ \E h \in Hooks : SetItemIdSettles(h)
    \/ \E h \in Hooks : SetItemInfoSettles(h)
    \/ \E h \in Hooks : SetItemFallbackSettles(h)
    \/ \E h \in Hooks : resetDeviceId(h)
    \/ \E h \in Hooks : RemoveIdSettles(h)
    \/ \E h \in Hooks : RemoveInfoSettles(h)
    \/ \E h \in Hooks : SetIsLoadingRenders(h)
    \/ Restart

IdentitySpec == Init /\ [][IdentityNext]_vars

StoreSpec == Init /\ [][StoreNext]_vars

(***************************************************************************)
(* The presentation layer: components calling the store with the           *)
(* identifier their own useDeviceId() exposes                              *)
(***************************************************************************)
Mounted(h) == pc[h] # "unmounted"

\* app/(tabs)/index.tsx: the list is rendered only past both LoadingSpinner returns
IndexRendered(h) == Mounted(h) /\ ~isLoading[h] /\ ~Falsy(deviceId[h])

\* the items on screen: the documents of the component's getTodos subscription
Shown(h) == ByDevice(todos, deviceId[h])

\* Index: useQuery(api.todos.getTodos, deviceId ? { deviceId } : "skip")
IndexQuery(h) ==
    /\ Mounted(h)
    /\ ~Falsy(deviceId[h])
    /\ getTodos(deviceId[h])

\* Header, ProgressStats: useQuery(api.todos.getTodos, { deviceId: deviceId ?? undefined })
HeaderQuery(h) ==
    /\ Mounted(h)
    /\ getTodos(IF deviceId[h] = Null THEN Undefined ELSE deviceId[h])

\* Index.handleToggleTodo
handleToggleTodo(h, i) ==
    /\ IndexRendered(h)
    /\ i \in Shown(h)
    /\ toggleTodo(deviceId[h], i)

\* Index.handleDeleteTodo, "Delete" pressed
handleDeleteTodo(h, i) ==
    /\ IndexRendered(h)
    /\ i \in Shown(h)
    /\ deleteTodo(deviceId[h], i)

\* Index.handleSaveEdit with editingId = i and editText = t
handleSaveEdit(h, i, t) ==
    /\ IndexRendered(h)
    /\ i \in Shown(h)
    /\ updateTodo(deviceId[h], i, Trim(t))

\* TodoInput.handleAddTodo with newTodo = t
handleAddTodo(h, t) ==
    /\ Mounted(h)
    /\ Trim(t) # <<>>
    /\ ~Falsy(deviceId[h])
    /\ addTodo(deviceId[h], Trim(t))

\* DangerZone.handleResetApp, both confirmations given
handleResetApp(h) ==
    /\ Mounted(h)
    /\ ~Falsy(deviceId[h])
    /\ clearAllTodos(deviceId[h])

\* what the user types in this specification: at most one character
TypedTexts == {t \in Texts : Len(t) <= 1}

\* one launch of the installation on a platform whose storage and hashing do
\* not fail
AppNext ==
    \/ Idle /\ IdentityNext /\ UNCHANGED <<faults, restarts>>
    \/ Idle /\ UNCHANGED histVars /\ \E h \in Hooks : IndexQuery(h)
    \/ Idle /\ UNCHANGED histVars /\ \E h \in Hooks : HeaderQuery(h)
    \/ Idle /\ UNCHANGED histVars /\ \E h \in Hooks, i \in IdArgs : handleToggleTodo(h, i)
    \/ Idle /\ UNCHANGED histVars /\ \E h \in Hooks, i \in IdArgs : handleDeleteTodo(h, i)
    \/ Idle /\ UNCHANGED histVars
            /\ \E h \in Hooks, i \in IdArgs, t \in TypedTexts : handleSaveEdit(h, i, t)
    \/ Idle /\ UNCHANGED histVars /\ \E h \in Hooks, t \in TypedTexts : handleAddTodo(h, t)
    \/ Idle /\ UNCHANGED histVars /\ \E h \in Hooks : handleResetApp(h)
    \/ Settle /\ UNCHANGED histVars

AppSpec == Init /\ [][AppNext]_vars

(***************************************************************************)
(* The store with a memory of earlier calls: successive toggles of one     *)
(* todo and the clearAllTodos made just before.  The texts do not matter   *)
(* here and are the short ones.                                            *)
(***************************************************************************)
\* the call just made changes what is remembered of the toggles: a successful
\* toggle begins or continues a streak, a successful update or deletion of the
\* followed todo ends it, a failed call changes nothing
Track ==
    /\ cleared' = cleared
    /\ streak' =
          IF call'.error # "" THEN streak
          ELSE IF call'.fn = "toggleTodo"
          THEN IF streak.n = 1
               THEN IF streak.id = call'.id THEN [streak EXCEPT !.n = 2] ELSE streak
               ELSE [id |-> call'.id, n |-> 1,
                     isCompleted |-> todos[call'.id].isCompleted,
                     text |-> todos[call'.id].text]
          ELSE IF \/ call'.fn \in {"updateTodo", "deleteTodo"} /\ call'.id = streak.id
                  \/ call'.fn = "clearAllTodos" /\ streak.id \in DOMAIN todos \ DOMAIN todos'
          THEN NoStreak
          ELSE streak

\* the result is taken: the call becomes the call before
Remember ==
    /\ streak' = streak
    /\ cleared' = IF call.fn = "clearAllTodos" /\ call.error = ""
                  THEN call.deviceId ELSE Null

\* the document that the successful call just made wrote, from the document it
\* read and the values it returned
WrittenBy ==
    IF call'.error # "" \/ call'.fn = "getTodos" THEN written
    ELSE IF call'.fn = "addTodo"
    THEN Insert(written, call'.retId,
                [text |-> Trim(call'.text), isCompleted |-> FALSE,
                 deviceId |-> call'.deviceId, creationTime |-> inserted + 1])
    ELSE IF call'.fn = "toggleTodo"
    THEN [written EXCEPT ![call'.id] =
             [todos[call'.id] EXCEPT !.isCompleted = call'.newStatus]]
    ELSE IF call'.fn = "updateTodo"
    THEN [written EXCEPT ![call'.id] =
             [todos[call'.id] EXCEPT !.text = call'.updatedText]]
    ELSE IF call'.fn = "deleteTodo"
    THEN Remove(written, {call'.retId})
    ELSE Remove(written, {i \in DOMAIN todos : todos[i].deviceId = call'.deviceId})

\* an addTodo and a clearAllTodos of one device made one right after the other:
\* the added todo was deleted, or it has survived
RaceEnds ==
    IF call'.error # "" \/ last.deviceId # call'.deviceId THEN {}
    ELSE IF /\ call'.fn = "clearAllTodos"
            /\ last.fn = "addTodo"
            /\ last.id \in DOMAIN todos
            /\ last.id \notin DOMAIN todos'
    THEN {"deleted"}
    ELSE IF /\ call'.fn = "addTodo"
            /\ last.fn = "clearAllTodos"
            /\ call'.retId \in DOMAIN todos'
    THEN {"survived"}
    ELSE {}

\* what the call just made adds to the memory of earlier calls
Follow ==
    /\ last' = last
    /\ written' = WrittenBy
    /\ raced' = raced \cup RaceEnds

\* the result is taken: a successful call becomes the call before
Keep ==
    /\ written' = written
    /\ raced' = raced
    /\ last' = IF call.error # "" THEN NoLast
               ELSE [fn |-> call.fn, deviceId |-> call.deviceId,
                     id |-> IF call.fn = "addTodo" THEN call.retId ELSE call.id]

HistoryNext ==
    \/ Idle /\ (\E d \in OptDeviceArgs : getTodos(d)) /\ Track /\ UNCHANGED <<serialVars, twinVars>>
    \/ Idle /\ (\E d \in DeviceArgs, t \in TypedTexts : NextCreator(d) /\ addTodo(d, t))
            /\ Track /\ UNCHANGED <<serialVars, twinVars>>
    \/ Idle /\ (\E d \in DeviceArgs, i \in IdArgs : toggleTodo(d, i))
            /\ Track /\ UNCHANGED <<serialVars, twinVars>>
    \/ Idle /\ (\E d \in DeviceArgs, i \in IdArgs : deleteTodo(d, i))
            /\ Track /\ UNCHANGED <<serialVars, twinVars>>
    \/ Idle /\ (\E d \in DeviceArgs, i \in IdArgs, t \in TypedTexts : updateTodo(d, i, t))
            /\ Track /\ UNCHANGED <<serialVars, twinVars>>
    \/ Idle /\ (\E d \in DeviceArgs : clearAllTodos(d)) /\ Track /\ UNCHANGED <<serialVars, twinVars>>
    \/ Settle /\ Remember /\ UNCHANGED <<serialVars, twinVars>>

HistorySpec == Init /\ [][HistoryNext]_vars

\* the calls in the order in which the deployment commits them, each followed
\* by what it wrote
SerialNext ==
    \/ Idle /\ (\E d \in OptDeviceArgs : getTodos(d)) /\ Follow /\ UNCHANGED <<trackVars, twinVars>>
    \/ Idle /\ (\E d \in DeviceArgs, t \in TypedTexts : NextCreator(d) /\ addTodo(d, t))
            /\ Follow /\ UNCHANGED <<trackVars, twinVars>>
    \/ Idle /\ (\E d \in DeviceArgs, i \in IdArgs : toggleTodo(d, i))
            /\ Follow /\ UNCHANGED <<trackVars, twinVars>>
    \/ Idle /\ (\E d \in DeviceArgs, i \in IdArgs : deleteTodo(d, i))
            /\ Follow /\ UNCHANGED <<trackVars, twinVars>>
    \/ Idle /\ (\E d \in DeviceArgs, i \in IdArgs, t \in EditedTexts : updateTodo(d, i, t))
            /\ Follow /\ UNCHANGED <<trackVars, twinVars>>
    \/ Idle /\ (\E d \in DeviceArgs : clearAllTodos(d)) /\ Follow /\ UNCHANGED <<trackVars, twinVars>>
    \/ Settle /\ Keep /\ UNCHANGED <<trackVars, twinVars>>

SerialSpec == Init /\ [][SerialNext]_vars

(***************************************************************************)
(* Two deployments that differ in the todos of one device                  *)
(***************************************************************************)
\* the device whose todos differ between the two tables
DeviceA == DeviceIdOf(1)

\* the other devices are numbered in the order of their first addTodo
NextOther(d) ==
    LET used == {creator[i] : i \in DOMAIN creator} \ {DeviceA}
    IN  d \in Devices \ {DeviceA} =>
            (d \in used \/ d = DeviceIdOf(Cardinality(used) + 2))

\* what is saved from the edit field in this specification: DeviceA saves
\* what it typed, so that its todos differ between the tables in being there
\* and in isCompleted; the other devices save a blank text or a longer one
RetypedTexts(d) ==
    IF d = DeviceA THEN {t \in Texts : Len(t) = 1}
    ELSE {t \in Texts : t = <<" ">> \/ t = <<"a", "a">>}

\* the ids handed out so far and the first one not yet used
KnownIds == {i \in IdArgs : i <= inserted + 1}

\* a call is made on the first table
OnFirst ==
    /\ Idle
    /\ twinCall = NoCall
    /\ UNCHANGED <<trackVars, serialVars, twinVars>>

\* a call of DeviceA is made on one table only
OneSided ==
    /\ twinCall = NoCall
    /\ call.deviceId = DeviceA
    /\ Settle
    /\ UNCHANGED <<trackVars, serialVars, twinVars>>

\* the call made on the first table is about to be made on the other one: the
\* tables change places, and an insert will generate the same _id again
Turn ==
    /\ ~Idle
    /\ twinCall = NoCall
    /\ twinCall' = call
    /\ call' = NoCall
    /\ before' = <<>>
    /\ todos' = twin
    /\ twin' = todos
    /\ inserted' = IF call.fn = "addTodo" /\ call.error = "" THEN inserted - 1 ELSE inserted
    /\ UNCHANGED <<creator, trackVars, serialVars>>
    /\ UNCHANGED idVars

\* the same call with the same arguments on the other table
Replay ==
    /\ Idle
    /\ twinCall # NoCall
    /\ UNCHANGED <<trackVars, serialVars, twinVars>>
    /\ \/ twinCall.fn = "getTodos" /\ getTodos(twinCall.deviceId)
       \/ twinCall.fn = "addTodo" /\ addTodo(twinCall.deviceId, twinCall.text)
       \/ twinCall.fn = "toggleTodo" /\ toggleTodo(twinCall.deviceId, twinCall.id)
       \/ twinCall.fn = "deleteTodo" /\ deleteTodo(twinCall.deviceId, twinCall.id)
       \/ twinCall.fn = "updateTodo"
             /\ updateTodo(twinCall.deviceId, twinCall.id, twinCall.text)
       \/ twinCall.fn = "clearAllTodos" /\ clearAllTodos(twinCall.deviceId)

\* both results are taken
TwinSettle ==
    /\ twinCall # NoCall
    /\ Settle
    /\ twinCall' = NoCall
    /\ UNCHANGED <<twin, trackVars, serialVars>>

TwinNext ==
    \/ OnFirst /\ \E d \in OptDeviceArgs : NextOther(d) /\ getTodos(d)
    \/ OnFirst /\ \E d \in DeviceArgs, t \in TypedTexts : NextOther(d) /\ addTodo(d, t)
    \/ OnFirst /\ \E d \in DeviceArgs, i \in KnownIds : NextOther(d) /\ toggleTodo(d, i)
    \/ OnFirst /\ \E d \in DeviceArgs, i \in KnownIds : NextOther(d) /\ deleteTodo(d, i)
    \/ OnFirst /\ \E d \in DeviceArgs, i \in KnownIds :
                      \E t \in RetypedTexts(d) : NextOther(d) /\ updateTodo(d, i, t)
    \/ OnFirst /\ \E d \in DeviceArgs : NextOther(d) /\ clearAllTodos(d)
    \/ OneSided
    \/ Turn
    \/ Replay
    \/ TwinSettle

TwinSpec == Init /\ [][TwinNext]_vars

(***************************************************************************)
(* Properties of the store (StoreSpec)                                     *)
(***************************************************************************)
Succeeded(fn) == call.fn = fn /\ call.error = ""
ListedIds == {call.list[k].id : k \in 1..Len(call.list)}
\* documents that were in the table when the call started and still are, unchanged
Untouched(i) == i \in DOMAIN todos /\ todos[i] = before[i]

\* the todos of table T that device d owns
OwnedIn(T, d) == {i \in DOMAIN T : T[i].deviceId = d}

\* C1: a getTodos(D) call returns exactly the stored todos whose deviceId is D,
\* each once and with its stored fields, and none of them was created by a
\* different device.
C1_ListIsolation ==
    call.fn = "getTodos" =>
        /\ call.error = ""
        /\ ListedIds = {i \in DOMAIN todos : todos[i].deviceId = call.deviceId}
        /\ Len(call.list) = Cardinality(ListedIds)
        /\ \A k \in 1..Len(call.list) :
              LET r == call.list[k]
              IN  /\ r.text = todos[r.id].text
                  /\ r.isCompleted = todos[r.id].isCompleted
                  /\ r.deviceId = call.deviceId
                  /\ creator[r.id] = call.deviceId

\* C1 witness: a device lists its own todo while another device owns one too
C1_Witness ==
    /\ call.fn = "getTodos"
    /\ Len(call.list) = 1
    /\ \E i \in DOMAIN todos : creator[i] # call.deviceId

\* the case of C2: the call names an existing todo of another device
ForeignCall ==
    /\ call.fn \in {"toggleTodo", "updateTodo", "deleteTodo"}
    /\ call.deviceId \in Devices
    /\ call.id \in DOMAIN before
    /\ creator[call.id] # call.deviceId
    /\ call.fn = "updateTodo" => \E k \in 1..Len(call.text) : call.text[k] \notin WhiteSpace

\* C2: toggle, update (non-blank text) and delete by device B on a todo of
\* device A # B fail with AuthorizationError and leave the todo as it was.
C2_ForeignMutationRejected ==
    ForeignCall =>
        /\ ErrorKind(call.error) = "AuthorizationError"
        /\ Untouched(call.id)

\* C2 witness: another device's delete was refused on a completed todo
C2_Witness ==
    /\ ForeignCall
    /\ call.fn = "deleteTodo"
    /\ before[call.id].isCompleted

\* r is t without its leading and trailing whitespace
IsTrimOf(r, t) ==
    \E a, b \in 0..Len(t) :
        /\ a + b <= Len(t)
        /\ r = SubSeq(t, a + 1, Len(t) - b)
        /\ \A k \in 1..a : t[k] \in WhiteSpace
        /\ \A k \in (Len(t) - b + 1)..Len(t) : t[k] \in WhiteSpace
        /\ r # <<>> => (r[1] \notin WhiteSpace /\ r[Len(r)] \notin WhiteSpace)

\* C8: a successful addTodo creates exactly one new todo with the trimmed text,
\* isCompleted = false and the supplied deviceId; stored todos are unchanged and
\* the new todo is in the device's list.
C8_AddCreatesOne ==
    Succeeded("addTodo") =>
        /\ call.retId \notin DOMAIN before
        /\ DOMAIN todos = DOMAIN before \cup {call.retId}
        /\ IsTrimOf(todos[call.retId].text, call.text)
        /\ todos[call.retId].isCompleted = FALSE
        /\ todos[call.retId].deviceId = call.deviceId
        /\ \A i \in DOMAIN before : Untouched(i)
        /\ LET l == CollectDesc(todos, ByDevice(todos, call.deviceId))
           IN  \E k \in 1..Len(l) : l[k].id = call.retId

\* C8 witness: a second todo was added from a text with surrounding whitespace
C8_Witness ==
    /\ Succeeded("addTodo")
    /\ before # <<>>
    /\ todos[call.retId].text # call.text

Blank(t) == \A k \in 1..Len(t) : t[k] \in WhiteSpace

\* C9: addTodo with empty or whitespace-only text, or with an empty deviceId,
\* fails with ValidationError and creates no record.
C9_AddValidation ==
    (call.fn = "addTodo" /\ (Blank(call.text) \/ call.deviceId = "")) =>
        /\ ErrorKind(call.error) = "ValidationError"
        /\ todos = before
        /\ inserted = Cardinality(DOMAIN creator)

\* C9 witness: a non-blank text was refused for an empty deviceId
C9_Witness ==
    /\ call.fn = "addTodo"
    /\ call.deviceId = ""
    /\ ~Blank(call.text)
    /\ call.error # ""

\* the case of C10: the owner toggles an existing todo
OwnerToggle ==
    /\ call.fn = "toggleTodo"
    /\ call.id \in DOMAIN before
    /\ before[call.id].deviceId = call.deviceId

\* C10: toggleTodo by the owner flips isCompleted, reports the stored new
\* status, and leaves text, deviceId and every other todo unchanged.
C10_ToggleFlips ==
    OwnerToggle =>
        /\ call.error = ""
        /\ DOMAIN todos = DOMAIN before
        /\ todos[call.id].isCompleted = ~before[call.id].isCompleted
        /\ call.newStatus = todos[call.id].isCompleted
        /\ todos[call.id].text = before[call.id].text
        /\ todos[call.id].deviceId = before[call.id].deviceId
        /\ \A i \in DOMAIN before \ {call.id} : Untouched(i)

\* C10 witness: a completed todo was toggled back while another todo exists
C10_Witness ==
    /\ OwnerToggle
    /\ before[call.id].isCompleted
    /\ DOMAIN before # {call.id}

\* the case of C11: a call with a device identifier names an id without a todo
MissingCall ==
    /\ call.fn \in {"toggleTodo", "updateTodo", "deleteTodo"}
    /\ call.deviceId \in Devices
    /\ call.id \notin DOMAIN before
    /\ call.fn = "updateTodo" => ~Blank(call.text)

\* C11: toggle, update (non-blank text) and delete with a non-empty deviceId on
\* an id that has no todo, never created or already deleted, fail with
\* NotFoundError and change nothing.
C11_MissingIsNotFound ==
    MissingCall =>
        /\ ErrorKind(call.error) = "NotFoundError"
        /\ todos = before

\* C11 witness: the owner deletes an id again after its todo was deleted
C11_Witness ==
    /\ MissingCall
    /\ call.fn = "deleteTodo"
    /\ call.id \in DOMAIN creator
    /\ creator[call.id] = call.deviceId

\* the case of C13: the owner updates an existing todo
OwnerUpdate ==
    /\ call.fn = "updateTodo"
    /\ call.id \in DOMAIN before
    /\ before[call.id].deviceId = call.deviceId

\* C13: updateTodo by the owner with non-blank text stores the trimmed text and
\* leaves isCompleted, deviceId and every other todo unchanged; with blank text
\* it fails with ValidationError and the table is unchanged.
C13_UpdateReplacesText ==
    OwnerUpdate =>
        IF Blank(call.text)
        THEN /\ ErrorKind(call.error) = "ValidationError"
             /\ todos = before
        ELSE /\ call.error = ""
             /\ DOMAIN todos = DOMAIN before
             /\ IsTrimOf(todos[call.id].text, call.text)
             /\ todos[call.id].isCompleted = before[call.id].isCompleted
             /\ todos[call.id].deviceId = before[call.id].deviceId
             /\ \A i \in DOMAIN before \ {call.id} : Untouched(i)

\* C13 witness: the owner gave a completed todo a new text that had to be
\* trimmed, while the table holds another todo
C13_Witness ==
    /\ OwnerUpdate
    /\ call.error = ""
    /\ before[call.id].isCompleted
    /\ todos[call.id].text # call.text
    /\ todos[call.id].text # before[call.id].text
    /\ DOMAIN before # {call.id}

\* the ids in the list a getTodos(d) would return now
ListNow(d) ==
    LET l == CollectDesc(todos, ByDevice(todos, d))
    IN  {l[k].id : k \in 1..Len(l)}

\* C14: a successful deleteTodo removes exactly the todo with that id: it is
\* gone from the owner's list and every other todo is unchanged.
C14_DeleteRemovesOne ==
    Succeeded("deleteTodo") =>
        /\ call.id \in DOMAIN before
        /\ before[call.id].deviceId = call.deviceId
        /\ DOMAIN todos = DOMAIN before \ {call.id}
        /\ call.id \notin ListNow(call.deviceId)
        /\ \A i \in DOMAIN before \ {call.id} : Untouched(i)

\* C14 witness: the owner deleted the newer of two todos
C14_Witness ==
    /\ Succeeded("deleteTodo")
    /\ \E i \in DOMAIN todos : i < call.id

\* the list a getTodos(d) returns on table T
ListOf(T, d) == CollectDesc(T, ByDevice(T, d))

\* C16: a clearAllTodos(A) call deletes and modifies no todo of a device B # A:
\* the list of every other device is the same before and after it.
C16_ClearAllScoped ==
    call.fn = "clearAllTodos" =>
        /\ \A i \in DOMAIN before :
              creator[i] # call.deviceId => Untouched(i)
        /\ \A B \in Devices \ {call.deviceId} : ListOf(todos, B) = ListOf(before, B)

\* C16 witness: a device cleared its todo while another device has a completed one
C16_Witness ==
    /\ Succeeded("clearAllTodos")
    /\ call.deletedCount = 1
    /\ \E i \in DOMAIN todos : todos[i].isCompleted
    /\ \E i \in DOMAIN todos : creator[i] # call.deviceId

\* C17: a getTodos result is ordered by creation, most recent first: of two
\* listed todos the one added later (the larger _id of the insertion counter)
\* comes first, whatever toggles and updates they have had.
C17_ListNewestFirst ==
    call.fn = "getTodos" =>
        \A k, l \in 1..Len(call.list) :
            k < l => call.list[k].id > call.list[l].id

\* C17 witness: a list of two todos of which the older one has been completed
\* and has the longer text
C17_Witness ==
    /\ call.fn = "getTodos"
    /\ Len(call.list) = 2
    /\ call.list[2].isCompleted
    /\ ~call.list[1].isCompleted
    /\ Len(call.list[2].text) > Len(call.list[1].text)

\* C18: getTodos with an empty or absent deviceId, or with a deviceId that owns
\* no todo, returns the empty sequence and no error, whatever is stored.
C18_ListEmptyNotError ==
    (/\ call.fn = "getTodos"
     /\ \/ call.deviceId \in {"", Undefined}
        \/ OwnedIn(todos, call.deviceId) = {})
        => (call.error = "" /\ call.list = <<>>)

\* C18 witness: a list was asked for without a deviceId while todos are stored
C18_Witness ==
    /\ call.fn = "getTodos"
    /\ call.deviceId = Undefined
    /\ todos # <<>>

\* C19: every stored todo has a non-empty text without leading or trailing
\* whitespace.
C19_TextStoredTrimmed ==
    \A i \in DOMAIN todos :
        /\ todos[i].text # <<>>
        /\ todos[i].text[1] \notin WhiteSpace
        /\ todos[i].text[Len(todos[i].text)] \notin WhiteSpace

\* C19 witness: an update has replaced a todo's text by the trimmed form of a
\* padded text
C19_Witness ==
    /\ Succeeded("updateTodo")
    /\ call.text # todos[call.id].text
    /\ before[call.id].text # todos[call.id].text

\* C20: every stored todo is under the id it was inserted with (its
\* _creationTime is that of the insertion that handed out the id) and has the
\* deviceId of the addTodo call that created it.
C20_IdAndOwnerImmutable ==
    \A i \in DOMAIN todos :
        /\ i \in DOMAIN creator
        /\ todos[i].creationTime = i
        /\ todos[i].deviceId = creator[i]

\* C20 witness: a todo that is completed has just been updated by its owner,
\* after another todo was deleted
C20_Witness ==
    /\ Succeeded("updateTodo")
    /\ todos[call.id].isCompleted
    /\ todos[call.id].text # before[call.id].text
    /\ DOMAIN creator # DOMAIN todos

\* the ids whose todo has been removed
Gone == (1..inserted) \ DOMAIN todos

\* C21: deleted is terminal: a todo that has been removed by deleteTodo or
\* clearAllTodos is not stored again by any later call, a toggle or update of
\* its id included, and is in no later list.
C21_DeletedIsTerminal ==
    [][\A i \in Gone :
          /\ i \notin DOMAIN todos'
          /\ call'.fn = "getTodos" => \A k \in 1..Len(call'.list) : call'.list[k].id # i]_vars

\* C21 witness: a toggle or update by the owner reached the store after its
\* todo had been removed, and left the id without a todo
C21_Witness ==
    /\ call.fn \in {"toggleTodo", "updateTodo"}
    /\ call.fn = "updateTodo" => ~Blank(call.text)
    /\ call.id \in DOMAIN creator
    /\ creator[call.id] = call.deviceId
    /\ call.id \in Gone

\* the call has ended with an error
Failed == call.fn # "none" /\ call.error # ""

\* C27: an addTodo, toggleTodo, updateTodo, deleteTodo or clearAllTodos call
\* that ends with an error leaves the table as it was when the call started:
\* the same documents with the same fields.
C27_FailedCallChangesNothing ==
    (Failed /\ call.fn # "getTodos") =>
        /\ DOMAIN todos = DOMAIN before
        /\ \A i \in DOMAIN before : todos[i] = before[i]
        /\ inserted = Cardinality(DOMAIN creator)

\* a toggleTodo of a stored todo by a device that does not own it has failed
C27_Witness ==
    /\ Failed
    /\ call.fn = "toggleTodo"
    /\ call.error = ErrNotAuthorized
    /\ call.id \in DOMAIN todos
    /\ todos[call.id].deviceId # call.deviceId

\* the error that the checks on deviceId, id and owner give, in that order
LookupError(missing) ==
    IF call.deviceId = "" THEN ErrDeviceRequiredAuth
    ELSE IF call.id \notin DOMAIN before THEN missing
    ELSE IF before[call.id].deviceId # call.deviceId THEN ErrNotAuthorized
    ELSE ""

\* C28: when several checks of a call fail, the first in a fixed order is
\* reported: updateTodo reports a blank text, then an empty deviceId, then a
\* missing id, then another owner; toggleTodo and deleteTodo report an empty
\* deviceId, then a missing id, then another owner.
C28_ChecksInOrder ==
    /\ call.fn = "updateTodo" =>
          call.error = IF Blank(call.text) THEN ErrEmptyText ELSE LookupError(ErrNotFound)
    /\ call.fn = "toggleTodo" => call.error = LookupError(ErrNotFound)
    /\ call.fn = "deleteTodo" => call.error = LookupError(ErrNotFoundDeleted)

\* an updateTodo with a white-space text of a todo of another device has
\* failed on the text
C28_Witness ==
    /\ call.fn = "updateTodo"
    /\ call.text # <<>>
    /\ Blank(call.text)
    /\ call.id \in DOMAIN before
    /\ call.deviceId \in Devices
    /\ before[call.id].deviceId # call.deviceId
    /\ ErrorKind(call.error) = "ValidationError"

\* C30: toggleTodo, updateTodo, deleteTodo and clearAllTodos called with an
\* empty deviceId end with a validation error and leave the table as it was
\* (clearAllTodos does not return a count), and no stored todo has an empty
\* deviceId.
C30_EmptyDeviceIdRefused ==
    /\ (/\ call.fn \in {"toggleTodo", "updateTodo", "deleteTodo", "clearAllTodos"}
        /\ call.deviceId = "") =>
          /\ ErrorKind(call.error) = "ValidationError"
          /\ todos = before
    /\ \A i \in DOMAIN todos : todos[i].deviceId \in Devices

\* clearAllTodos with an empty deviceId has failed on a table that holds todos
C30_Witness ==
    /\ call.fn = "clearAllTodos"
    /\ call.deviceId = ""
    /\ call.error = ErrDeviceRequired
    /\ call.deletedCount = 0
    /\ todos # <<>>

(***************************************************************************)
(* Properties of successive calls (HistorySpec)                            *)
(***************************************************************************)
\* C12: after two successive successful toggles of a todo, with no update or
\* deletion of it in between, the todo is stored with the isCompleted and the
\* text it had before the first of them.
C12_ToggleInvolution ==
    streak.n = 2 =>
        /\ streak.id \in DOMAIN todos
        /\ todos[streak.id].isCompleted = streak.isCompleted
        /\ todos[streak.id].text = streak.text

\* C12 witness: the second toggle of a todo that began completed has just been
\* made, while the table holds another todo
C12_Witness ==
    /\ streak.n = 2
    /\ streak.isCompleted
    /\ Succeeded("toggleTodo")
    /\ call.id = streak.id
    /\ Cardinality(DOMAIN todos) = 2

\* C15: clearAllTodos with a non-empty deviceId succeeds, deletes every todo of
\* the device and returns their number; the device's list is then empty, and a
\* clearAllTodos of the same device made right after one returns 0.
C15_ClearAllCounts ==
    (call.fn = "clearAllTodos" /\ call.deviceId \in Devices) =>
        /\ call.error = ""
        /\ call.deletedCount = Cardinality(OwnedIn(before, call.deviceId))
        /\ OwnedIn(todos, call.deviceId) = {}
        /\ ListNow(call.deviceId) = {}
        /\ cleared = call.deviceId => call.deletedCount = 0

\* C15 witness: a device that had created todos repeats its clearAllTodos
C15_Witness ==
    /\ call.fn = "clearAllTodos"
    /\ cleared = call.deviceId
    /\ call.deletedCount = 0
    /\ \E i \in DOMAIN creator : creator[i] = call.deviceId /\ i \notin DOMAIN todos

(***************************************************************************)
(* Properties of calls in their commit order (SerialSpec)                  *)
(***************************************************************************)
\* the document that a list call returned for an id
Listed(r) == [text |-> r.text, isCompleted |-> r.isCompleted,
              deviceId |-> r.deviceId, creationTime |-> r.creationTime]

C24_AddNeverReusesId ==
    [][(call'.fn = "addTodo" /\ call'.error = "") =>
          /\ call'.retId \notin DOMAIN creator
          /\ call'.retId \notin DOMAIN todos
          /\ DOMAIN todos' = DOMAIN todos \cup {call'.retId}
          /\ \A i \in DOMAIN todos : todos'[i] = todos[i]
          /\ (/\ last.fn = "addTodo"
              /\ last.deviceId = call'.deviceId
              /\ todos[last.id].text = Trim(call'.text)) =>
                /\ last.id # call'.retId
                /\ {last.id, call'.retId} \subseteq DOMAIN todos'
                /\ todos'[call'.retId].text = todos'[last.id].text]_vars

\* two addTodo calls of one device with the same text, one right after the
\* other, have left two todos
C24_Witness ==
    /\ Succeeded("addTodo")
    /\ last.fn = "addTodo"
    /\ last.deviceId = call.deviceId
    /\ last.id # call.retId
    /\ {last.id, call.retId} \subseteq DOMAIN todos
    /\ todos[last.id].text = todos[call.retId].text
    /\ todos[last.id].deviceId = todos[call.retId].deviceId

\* the call repeats the successful call before it: same function, deviceId, _id
Reissued(fn) ==
    /\ call.fn = fn
    /\ last.fn = fn
    /\ last.deviceId = call.deviceId
    /\ last.id = call.id

\* C25 as stated: a deleteTodo or toggleTodo that repeats the successful call
\* before it ends with an error.
C25_ReissuedFails ==
    (Reissued("deleteTodo") \/ Reissued("toggleTodo")) => call.error # ""

\* C25 as amended: a deleteTodo that repeats the successful call before it
\* ends with the not-found error and changes nothing; a toggleTodo that
\* repeats the successful call before it succeeds again and flips isCompleted
\* back, leaving every other field and todo as it was.
C25_ReissuedDeleteFailsToggleFlips ==
    /\ Reissued("deleteTodo") =>
          /\ ErrorKind(call.error) = "NotFoundError"
          /\ todos = before
    /\ Reissued("toggleTodo") =>
          /\ call.error = ""
          /\ call.newStatus = ~before[call.id].isCompleted
          /\ todos = [before EXCEPT ![call.id].isCompleted = call.newStatus]

\* a deleteTodo repeated by the owner right after it succeeded has failed
C25_Witness ==
    /\ Reissued("deleteTodo")
    /\ creator[call.id] = call.deviceId
    /\ call.error = ErrNotFoundDeleted

(***************************************************************************)
(* Properties of two deployments (TwinSpec)                                *)
(***************************************************************************)
\* the todos of table T that DeviceA does not own
OthersOf(T) == [i \in {j \in DOMAIN T : T[j].deviceId # DeviceA} |-> T[i]]

\* a call presenting the identifier of a device other than DeviceA has been
\* made on both tables
ComparedOther ==
    /\ call # NoCall
    /\ twinCall # NoCall
    /\ call.deviceId \in Devices \ {DeviceA}

\* what the call returned is the same on both tables
SameReturn ==
    /\ call.list = twinCall.list
    /\ call.retId = twinCall.retId
    /\ call.newStatus = twinCall.newStatus
    /\ call.updatedText = twinCall.updatedText
    /\ call.deletedCount = twinCall.deletedCount
    /\ (call.error = "") = (twinCall.error = "")

\* C26 as stated: on two tables that differ only in the todos of DeviceA, a
\* call of another device returns the same and ends with the same error kind.
C26_Noninterference ==
    ComparedOther =>
        /\ SameReturn
        /\ ErrorKind(call.error) = ErrorKind(twinCall.error)

\* C26 as amended: on two tables that differ only in the todos of DeviceA, a
\* call of another device returns the same, succeeds on both or fails on both,
\* and leaves the todos of the other devices the same on both; the error kind
\* is the same too, unless the call is a toggleTodo, updateTodo or deleteTodo
\* of an id that is a todo of DeviceA on one table and no todo on the other,
\* which fails with AuthorizationError on the one and NotFoundError on the
\* other.
C26_NoninterferenceButExistence ==
    /\ (call = NoCall /\ twinCall = NoCall) => OthersOf(todos) = OthersOf(twin)
    /\ ComparedOther =>
          /\ SameReturn
          /\ OthersOf(todos) = OthersOf(twin)
          /\ \/ ErrorKind(call.error) = ErrorKind(twinCall.error)
             \/ /\ call.fn \in {"toggleTodo", "updateTodo", "deleteTodo"}
                /\ {ErrorKind(call.error), ErrorKind(twinCall.error)}
                      = {"AuthorizationError", "NotFoundError"}
                /\ \/ call.id \in DOMAIN todos \ DOMAIN twin
                      /\ todos[call.id].deviceId = DeviceA
                      /\ ErrorKind(call.error) = "AuthorizationError"
                   \/ call.id \in DOMAIN twin \ DOMAIN todos
                      /\ twin[call.id].deviceId = DeviceA
                      /\ ErrorKind(twinCall.error) = "AuthorizationError"

\* another device has listed its todos on two tables of which only one holds
\* a todo of DeviceA
C26_Witness ==
    /\ ComparedOther
    /\ call.fn = "getTodos"
    /\ Len(call.list) = 1
    /\ DOMAIN todos # DOMAIN twin
    /\ \E i \in DOMAIN todos \cup DOMAIN twin : creator[i] = DeviceA

(***************************************************************************)
(* Properties of the identity hook (IdentitySpec)                          *)
(***************************************************************************)
Quiet == \A h \in Hooks : ~InFlight(h)
Ended(h) == pc[h] = "idle"

\* C3: on a fresh installation with reliable storage and hashing, and without
\* a reset, all calls that have returned did so with one identifier, and once
\* no call is in flight that identifier is the one persisted under 'device_id'.
C3_SingleIdentifier ==
    (resets = 0 /\ restarts = 0 /\ faults = 0) =>
        /\ \A g, h \in Hooks :
              (outcome[g] = "returned" /\ outcome[h] = "returned")
                  => deviceId[g] = deviceId[h]
        /\ \A h \in Hooks :
              (outcome[h] = "returned" /\ Quiet) => storage["device_id"] = deviceId[h]

\* the body of C4: the settled identifier is still the persisted one, and every
\* call that started after it was settled has returned it
SettledIdentifierKept ==
    /\ baseline # Null => storage["device_id"] = baseline
    /\ \A h \in Hooks :
          (Ended(h) /\ expect[h] # Null)
              => (outcome[h] = "returned" /\ deviceId[h] = expect[h])

C5_AlwaysCompletes ==
    \A h \in Hooks :
        /\ outcome[h] # "rejected"
        /\ (resets = 0 /\ Ended(h)) => (~isLoading[h] /\ ~Falsy(deviceId[h]))

\* C6: whenever a hook exposes a non-null deviceId, that string is the value
\* stored under 'device_id'.
C6_ExposedIsPersisted ==
    \A h \in Hooks : deviceId[h] # Null => storage["device_id"] = deviceId[h]

C7_ResetRetiresIdentifier ==
    /\ \A p \in retired :
          /\ storage["device_id"] # p
          /\ \A h \in Hooks : deviceId[h] # p
    /\ (call.fn # "none" /\ call.deviceId \notin retired) =>
          \A i \in DOMAIN before :
              before[i].deviceId \in retired => (Untouched(i) /\ i \notin ListedIds)

\* C29, the components: every addTodo, toggleTodo, updateTodo, deleteTodo and
\* clearAllTodos that a component sends carries a non-empty deviceId.
C29_MutationsCarryDeviceId ==
    call.fn \in {"addTodo", "toggleTodo", "updateTodo", "deleteTodo", "clearAllTodos"} =>
        ~Falsy(call.deviceId)

=============================================================================
